---- MODULE Spec2Model ----
(***************************************************************************)
(* A model of the cargo-libafl fuzzing runtime                             *)
(* (cargo-libafl/cargo-libafl-runtime/runtime.rs): the start-up of `main`, *)
(* the per-core fuzzing clients created by `run_client`, the novelty       *)
(* feedback and the crash objective the clients are configured with, the   *)
(* minimizing corpus scheduler, the crash store and the broadcast of new   *)
(* test cases between clients.                                             *)
(***************************************************************************)
EXTENDS Integers, Sequences, FiniteSets, TLC

(***************************************************************************)
(* Bounds of the model.                                                    *)
(***************************************************************************)
\* number of target executions made by the mutational stages, all clients together
MaxExecs == 2
\* number of seed files found in the input directories at start-up
MaxSeeds == 1
\* iterations of the fuzz loop followed stage by stage
MaxIters == 2
\* calls of the target made by the stages of those iterations, and calls
\* of the entry point made by one process
MaxCalls == 3
\* processes of one session: the main process, respawners and clients
MaxProcs == 4
\* fields in which a BuildOptions value differs from the default one
MaxChanged == 2
\* restarts of the client followed through the reading of the tokens
MaxRestarts == 2

\* the clients the Launcher spawns, one per core of `--cores` (runtime.rs:430)
Workers == {1, 2}
\* the instrumented edges of the coverage map
Edges == {1, 2}
\* the hit-count buckets an edge can report (HitcountsMapObserver)
HitCounts == {0, 1}
ExecMaps == [Edges -> HitCounts]
ZeroMap == [i \in Edges |-> 0]
\* wall-clock durations reported by the TimeObserver (runtime.rs:230)
Times == {1, 2}
\* lengths of the inputs
Lens == {1}
\* backtrace hashes reported by the BacktraceObserver (runtime.rs:236)
Sigs == {"H1", "H2"}
NoHash == "none"
ExitKinds == {"Ok", "Crash", "Timeout"}
DirNames == <<"corpus", "crashes">>
\* what a path can be when main starts: a directory, a file of another kind,
\* absent with an existing parent, absent below a parent that is absent too
PathKinds == {"dir", "file", "absent", "noparent"}

Max(a, b) == IF a >= b THEN a ELSE b
Min(S) == CHOOSE x \in S : \A y \in S : x <= y

(***************************************************************************)
(* Start-up checks of main (runtime.rs:184-192).                           *)
(***************************************************************************)
\* fs::create_dir(dir).is_err()
CreateDirFails(kind) == kind # "absent"
\* the path after fs::create_dir(dir)
AfterCreateDir(kind) == IF kind = "absent" THEN "dir" ELSE kind
\* dir.is_dir()
IsDirAlways(kind) == TRUE
IsDir(kind) == kind = "dir"

RECURSIVE CheckDirs(_, _)
\* the loop over [corpus_dir, crashes_dir]: the paths afterwards, and whether
\* the loop ran to its end (ok) or logged the error and returned from main
CheckDirs(paths, i) ==
    IF i > Len(DirNames) THEN [paths |-> paths, ok |-> TRUE]
    ELSE LET d == DirNames[i]
             after == [paths EXCEPT ![d] = AfterCreateDir(paths[d])]
         IN IF CreateDirFails(paths[d]) /\ ~IsDir(after[d])
            THEN [paths |-> after, ok |-> FALSE]
            ELSE CheckDirs(after, i + 1)

(***************************************************************************)
(* The novelty feedback (runtime.rs:242-253).                              *)
(***************************************************************************)
\* MaxMapFeedback: the map test, an entry above the history map
MapAnyHit(history, map) == \E i \in Edges : map[i] # 0
MapIsInteresting(history, map) ==
    \E i \in Edges : map[i] # 0 /\ Max(history[i], map[i]) > history[i]
\* MaxMapFeedback: the history map after an interesting execution
MapOverwrite(history, map) == map
MapKeep(history, map) == history
MapMerge(history, map) == [i \in Edges |-> Max(history[i], map[i])]
\* TimeFeedback::is_interesting: stores the duration, answers false
TimeAlwaysInteresting(time) == TRUE
TimeIsInteresting(time) == FALSE
\* feedback_or!: both feedbacks are evaluated, the answers or-ed
FeedbackOr(a, b) == a \/ b
\* the feedback of the fuzzer on one execution: the answer, the answers of
\* its two parts, the history map and the duration held by the TimeFeedback
Feedback(history, map, time) ==
    LET mapTest == MapIsInteresting(history, map)
        timeTest == TimeIsInteresting(time)
    IN [res |-> FeedbackOr(mapTest, timeTest),
        mapTest |-> mapTest,
        timeTest |-> timeTest,
        history |-> IF mapTest THEN MapMerge(history, map) ELSE history,
        time |-> time]

(***************************************************************************)
(* The objective (runtime.rs:255-259).                                     *)
(***************************************************************************)
\* CrashFeedback::is_interesting
CrashIsInteresting(exit) == exit = "Crash"
\* BacktraceObserver::post_exec: a hash on a crash, cleared otherwise
ObservedHash(exit, sig) == IF exit = "Crash" THEN sig ELSE NoHash
\* NewHashFeedback::is_interesting: inserts the hash, true when it was new
HashAlwaysNew(known, hash) == hash # NoHash
HashIsNew(known, hash) == hash # NoHash /\ hash \notin known
HashInsert(known, hash) == IF hash = NoHash THEN known ELSE known \cup {hash}
\* an objective that also takes every timeout for a solution, as
\* feedback_or_fast!(CrashFeedback, TimeoutFeedback) would
ObjectiveCrashOrTimeout(known, exit, sig) ==
    [res |-> exit \in {"Crash", "Timeout"}, crashTest |-> exit = "Crash",
     hashEvaluated |-> FALSE, known |-> known]
\* feedback_and_fast!: the second feedback runs only when the first is true
Objective(known, exit, sig) ==
    LET crashTest == CrashIsInteresting(exit)
        hash == ObservedHash(exit, sig)
    IN IF ~crashTest
       THEN [res |-> FALSE, crashTest |-> FALSE, hashEvaluated |-> FALSE,
             known |-> known]
       ELSE [res |-> HashIsNew(known, hash), crashTest |-> TRUE,
             hashEvaluated |-> TRUE, known |-> HashInsert(known, hash)]

(***************************************************************************)
(* The scheduler (runtime.rs:329-334): IndexesLenTimeMinimizerScheduler    *)
(* over a PowerQueueScheduler.  A test case of the corpus is a record      *)
(*   map      the coverage map of the execution that admitted it           *)
(*   time     its execution time, set by the TimeFeedback on admission     *)
(*   len      the length of its input                                      *)
(*   hasMeta  it still carries its MapIndexesMetadata                      *)
(*   refcnt   the reference count of that metadata                         *)
(*   favored  it carries IsFavoredMetadata                                 *)
(***************************************************************************)
\* MapIndexesMetadata: the indexes of the nonzero entries (track_indexes)
Indexes(map) == {i \in Edges : map[i] # 0}
\* LenTimeMulTestcaseScore::compute
Factor(tc) == tc.time * tc.len

RECURSIVE UpdateScoreLoop(_, _, _, _, _)
\* the loop of MinimizerScheduler::update_score over the indexes of test
\* case idx: which of them it takes over (favs), and the corpus with the
\* reference counts of the previous holders lowered
UpdateScoreLoop(corp, top, idx, todo, favs) ==
    IF todo = {} THEN [corp |-> corp, favs |-> favs]
    ELSE LET elem == Min(todo)
             rest == todo \ {elem}
             old == top[elem]
         IN IF old = 0 \/ old = idx
            THEN UpdateScoreLoop(corp, top, idx, rest, favs \cup {elem})
            ELSE IF Factor(corp[idx]) > Factor(corp[old])
            THEN UpdateScoreLoop(corp, top, idx, rest, favs)
            ELSE LET cnt == corp[old].refcnt - 1
                     corp2 == [corp EXCEPT ![old].refcnt = Max(cnt, 0),
                                           ![old].hasMeta = cnt > 0]
                 IN UpdateScoreLoop(corp2, top, idx, rest, favs \cup {elem})

\* MinimizerScheduler::on_add -> update_score: corpus and TopRatedsMetadata
UpdateScore(corp, top, idx) ==
    LET r == UpdateScoreLoop(corp, top, idx, Indexes(corp[idx].map), {})
        n == Cardinality(r.favs)
    IN [corp |-> [r.corp EXCEPT ![idx].refcnt = n, ![idx].hasMeta = n > 0],
        top |-> [e \in Edges |-> IF e \in r.favs THEN idx ELSE top[e]]]

RECURSIVE CullLoop(_, _, _, _)
\* the loop of MinimizerScheduler::cull over the entries of the top-rated
\* map, in the order `keys` in which the hash map yields them
CullLoop(corp, top, keys, acc) ==
    IF keys = <<>> THEN corp
    ELSE LET key == Head(keys)
             idx == top[key]
         IN IF key \in acc THEN CullLoop(corp, top, Tail(keys), acc)
            ELSE CullLoop([corp EXCEPT ![idx].favored = TRUE], top, Tail(keys),
                          acc \cup Indexes(corp[idx].map))

CullNothing(corp, top, keys) == corp
Cull(corp, top, keys) == CullLoop(corp, top, keys, {})

\* the orders in which the keys of the top-rated map can be iterated
KeyOrders(top) ==
    LET keys == {e \in Edges : top[e] # 0}
    IN {s \in UNION {[1..n -> keys] : n \in 0..Cardinality(Edges)} :
          /\ Len(s) = Cardinality(keys)
          /\ \A i, j \in 1..Len(s) : i # j => s[i] # s[j]}

(***************************************************************************)
(* The state of one client (the StdState of runtime.rs:262-277 with the    *)
(* metadata of the feedbacks and of the scheduler), as a record            *)
(*   global     history map of the MaxMapFeedback                          *)
(*   known      hash set of the NewHashFeedback                            *)
(*   corpus     the corpus, a sequence of test cases                       *)
(*   top        TopRatedsMetadata: edge -> index of its test case, 0 none  *)
(*   solutions  number of entries of the solutions corpus                  *)
(***************************************************************************)
FreshState ==
    [global |-> ZeroMap, known |-> {}, corpus |-> <<>>,
     top |-> [e \in Edges |-> 0], solutions |-> 0]

NewTestcase(map, time, len) ==
    [map |-> map, time |-> time, len |-> len, hasMeta |-> TRUE, refcnt |-> 0,
     favored |-> FALSE]

\* StdFuzzer::process_execution: the objective first, the feedback only when
\* the objective declined; the new state and what was decided
ProcessExecution(st, exit, map, time, len, sig) ==
    LET obj == Objective(st.known, exit, sig)
        fb == Feedback(st.global, map, time)
        isSolution == obj.res
        isCorpus == ~isSolution /\ fb.res
        added == Append(st.corpus, NewTestcase(map, fb.time, len))
        sc == UpdateScore(added, st.top, Len(added))
    IN [st |-> [global |-> IF isSolution THEN st.global ELSE fb.history,
                known |-> obj.known,
                corpus |-> IF isCorpus THEN sc.corp ELSE st.corpus,
                top |-> IF isCorpus THEN sc.top ELSE st.top,
                solutions |-> IF isSolution THEN st.solutions + 1 ELSE st.solutions],
        obj |-> obj,
        fbEvaluated |-> ~isSolution,
        fb |-> fb,
        isSolution |-> isSolution,
        isCorpus |-> isCorpus]

\* the crash and timeout handlers of the in-process executor: the objective
\* alone is evaluated, the state is saved and the process exits
CrashHandlerNoObjective(st, exit, sig) ==
    [st |-> st,
     obj |-> [res |-> FALSE, crashTest |-> FALSE, hashEvaluated |-> FALSE,
              known |-> st.known],
     isSolution |-> FALSE]
CrashHandler(st, exit, sig) ==
    LET obj == Objective(st.known, exit, sig)
    IN [st |-> [st EXCEPT !.known = obj.known,
                          !.solutions = IF obj.res THEN @ + 1 ELSE @],
        obj |-> obj,
        isSolution |-> obj.res]

\* the elements of a sequence, and the orders a directory listing can have
Range(s) == {s[i] : i \in 1..Len(s)}
Orders(S) ==
    {s \in [1..Cardinality(S) -> S] : \A i, j \in 1..Cardinality(S) : i # j => s[i] # s[j]}

RECURSIVE EvaluateAll(_, _, _)
\* evaluate_input on each of `files` in turn, as load_initial_inputs,
\* generate_initial_inputs and the handling of received NewTestcase events
\* do: the state and the files admitted to the corpus
EvaluateAll(st, files, admitted) ==
    IF files = <<>> THEN [st |-> st, admitted |-> admitted]
    ELSE LET f == Head(files)
             r == ProcessExecution(st, "Ok", f.map, f.time, f.len, NoHash)
         IN EvaluateAll(r.st, Tail(files),
                        IF r.isCorpus THEN Append(admitted, f) ELSE admitted)

\* an input with what the observers report of its execution
Files == [map : ExecMaps, time : Times, len : Lens]
\* the seed files of the input directories: one that covers nothing and one
\* that covers the first edge
SeedMaps == {ZeroMap, [i \in Edges |-> IF i = 1 THEN 1 ELSE 0]}
SeedFiles == {f \in Files : f.time = 1 /\ f.map \in SeedMaps}
\* what the 128 inputs of the RandBytesGenerator can amount to (line 399-404)
Generated == {<<f>> : f \in SeedFiles}

\* line 398: state.corpus().count() < 1
NeedsGeneration(count) == count < 1
\* line 416: state.corpus().count() == 0
CorpusNeverEmpty(count) == FALSE
CorpusEmpty(count) == count = 0

(***************************************************************************)
(* The stages of the fuzz loop (runtime.rs:307-387).                       *)
(***************************************************************************)
\* the stages tuple, in the order of line 380-387
StagesI2SFirst ==
    <<"generalization", "calibration", "i2s", "tracing", "power", "grimoire">>
Stages ==
    <<"generalization", "calibration", "tracing", "i2s", "power", "grimoire">>
\* the closure of skippable_generalization (line 353)
GateOpen(enabled) == TRUE
SkippableGeneralization(enabled) == enabled
\* the closure of skippable_grimoire (line 321)
SkippableGrimoire(enabled) == enabled
\* the stages wrapped in an IfElseStage
Gated == {"generalization", "grimoire"}
\* whether perform_all performs the stage: the IfElseStage calls its closure
\* and performs the wrapped stage or the empty tuple
Gate(name, enabled) ==
    IF name = "generalization" THEN SkippableGeneralization(enabled)
    ELSE IF name = "grimoire" THEN SkippableGrimoire(enabled)
    ELSE TRUE
\* the executor a stage runs the target with: the TracingStage owns the
\* executor built at line 371, the others are handed `executor` of line 359
StageExecutor(name) == IF name = "tracing" THEN "tracing" ELSE "executor"
\* only `executor` is wrapped in a TimeoutExecutor (line 359-368)
HasTimeout(executor) == executor = "executor"
\* what a call of the harness does: rust_fuzzer_test_input returns, crashes
\* (signal or panic) or does not return
Fates == {"returns", "crashes", "hangs"}
NoCall == [stage |-> "none", executor |-> "none", timer |-> FALSE, fate |-> "none"]

VARIABLES
    paths,        \* what corpus_dir and crashes_dir are on disk
    mainPc,       \* position of main: "start", "dirs_ok", "shmem", "broker", "returned", "panicked"
    diagnostic,   \* an error was logged by main
    exitStatus,   \* exit status of the main process, -1 while it runs
    shmem,        \* the shared memory provider was created (line 200)
    wpc,          \* position of each client: "off", "spawned", "sched", "stages", "crashed", "dead", "shutdown"
    wexit,        \* exit status of the last process of each client, -1 while it runs
    wdiag,        \* the client logged the error of line 417
    state,        \* the state of each client
    inbox,        \* NewTestcase events forwarded by the broker, per client
    disk,         \* the files of the input directories and the corpus directory
    crashStore,   \* the files of the crashes directory, counted per writer and hash
    objectives,   \* objective_size last reported by each client to the monitor
    crashes,      \* crashing executions so far, per client and backtrace hash
    execs,        \* executions made by the stages so far
    ev            \* the step that led to this state, with what it started from

\* one client process inside fuzz_loop, stage by stage
VARIABLES
    grimoire_enabled, \* opt.grimoire (line 307)
    loopPc,       \* "off", "next", "stage", "calls", "call", "exited"
    stage,        \* index in the stages tuple of the stage being performed
    ran,          \* the stages performed so far in this iteration, in order
    gates,        \* what the closures of the two IfElseStages have returned so far
    call,         \* the target call in progress: stage, executor, timer armed, its fate
    made,         \* the stage being performed has called the target
    iters,        \* iterations of the loop completed
    targetCalls,  \* calls of the target made in the loop
    lastExit      \* what the last call of the target was reported as

loopVars == <<grimoire_enabled, loopPc, stage, ran, gates, call, made, iters,
              targetCalls, lastExit>>

\* the processes of a session and the entry point that fuzz_target! generates
VARIABLES
    debugEnv,     \* RUST_LIBFUZZER_DEBUG_PATH is set in the environment
    targetKind,   \* the arm of fuzz_target! the target was written with
    forks,        \* the build spawns processes by fork (unix with the fork feature)
    minSize,      \* <$dty as Arbitrary>::size_hint(0).0 of a typed target
    procs,        \* the processes started so far, the main process first
    debugFile,    \* what the file at the debug path holds
    lastCall      \* the last call of rust_fuzzer_test_input and what it did

targetVars == <<debugEnv, targetKind, forks, minSize, procs, debugFile, lastCall>>

\* the build options of the cargo subcommand, rendered and parsed back
VARIABLES
    buildOptions, \* a BuildOptions value
    rendered,     \* its Display output
    reparsed,     \* what clap makes of the output split at the spaces
    optPc         \* "off", "value", "rendered", "parsed"

optionVars == <<buildOptions, rendered, reparsed, optPc>>

\* one client through run_client's reading of the tokens, and its restarts
VARIABLES
    token_files,  \* what the files named by --tokens hold (line 181)
    autoTokens,   \* what autotokens() extracts from the target binary
    tokens,       \* the Tokens metadata of the client's state
    tokPc,        \* "off", "spawned", "loop", "crashed", "failed"
    reads,        \* times the client read the token files and the binary
    restarts,     \* processes respawned for the client
    lastMutation  \* what the last token mutation returned

tokenVars == <<token_files, autoTokens, tokens, tokPc, reads, restarts,
               lastMutation>>

vars == <<paths, mainPc, diagnostic, exitStatus, shmem, wpc, wexit, wdiag, state,
          inbox, disk, crashStore, objectives, crashes, execs, ev,
          loopVars, targetVars, optionVars, tokenVars>>

mainVars == <<paths, mainPc, diagnostic, exitStatus, shmem>>

\* what the runtime's session does not touch
aside == <<loopVars, targetVars, optionVars, tokenVars>>

\* the record of a step: its kind ("none", "client", "next", "exec", "kill", "recv"),
\* the client, the execution's exit kind, map, duration and hash, the client's
\* history map, hash set, corpus size and solutions before the step, whether the
\* NewHashFeedback ran, whether the execution repeats the one just before,
\* for run_client the size after loading, whether it generated, whether the
\* process started without a saved state and the files the directories held,
\* for the handling of events the NewTestcase events handled, and the test
\* cases of the corpus before the step
NoEv ==
    [kind |-> "none", w |-> 0, exit |-> "Ok", map |-> ZeroMap, time |-> 0,
     hash |-> NoHash, globalBefore |-> ZeroMap, knownBefore |-> {},
     corpusBefore |-> 0, solutionsBefore |-> 0, hashEvaluated |-> FALSE, replay |-> FALSE,
     loaded |-> 0, generated |-> FALSE, fresh |-> FALSE, dir |-> {},
     msgs |-> <<>>, casesBefore |-> <<>>]

\* the inputs of the test cases of a corpus, in the order of their indexes
CaseFiles(corp) ==
    [i \in 1..Len(corp) |-> [map |-> corp[i].map, time |-> corp[i].time,
                              len |-> corp[i].len]]

StepEv(kind, w) ==
    [NoEv EXCEPT !.kind = kind, !.w = w, !.globalBefore = state[w].global,
                 !.knownBefore = state[w].known,
                 !.corpusBefore = Len(state[w].corpus),
                 !.solutionsBefore = state[w].solutions,
                 !.casesBefore = CaseFiles(state[w].corpus)]

(***************************************************************************)
(* The entry points of the target (cargo-libafl-helper/src/lib.rs) and the *)
(* processes that call them.  A process is a record                        *)
(*   role   "broker" (the process the operator starts), "respawner" (the   *)
(*          process the Launcher starts for a core), "client" (the process *)
(*          the respawner starts, which runs run_client)                   *)
(*   pc     "entry" (at the start of main), "main" (past the hook),        *)
(*          "panicked"                                                     *)
(*   inits  runs of rust_fuzzer_initialize in the memory image of the      *)
(*          process, those inherited through fork included                 *)
(*   own    runs of rust_fuzzer_initialize made by the process itself      *)
(*   cell   RUST_LIBFUZZER_DEBUG_PATH, the OnceCell, holds a path          *)
(*   calls  calls of rust_fuzzer_test_input made by the process            *)
(***************************************************************************)
TargetKinds == {"bytes", "typed"}
\* <$dty as Arbitrary>::size_hint(0).0: a type that needs no byte, one that needs two
SizeHints == {0, 2}
\* an input: its length, and whether arbitrary_take_rest makes a value of it
Inputs == [len : {0, 1, 2}, decodes : BOOLEAN]
NextRole(role) == IF role = "broker" THEN "respawner" ELSE "client"

NewProcess ==
    [role |-> "broker", pc |-> "entry", inits |-> 0, own |-> 0, cell |-> FALSE,
     calls |-> 0]

\* rust_fuzzer_initialize (lib.rs:9-17): sets the cell when the variable is
\* in the environment; set() on a cell already set makes expect() panic
InitializeSkipped(proc, env) == proc
RustFuzzerInitialize(proc, env) ==
    IF env /\ proc.cell
    THEN [proc EXCEPT !.pc = "panicked", !.inits = @ + 1, !.own = @ + 1]
    ELSE [proc EXCEPT !.cell = env, !.inits = @ + 1, !.own = @ + 1]

\* main (runtime.rs:160-163): the hook is the first thing main does
MainHook(proc, env) ==
    LET q == RustFuzzerInitialize(proc, env)
    IN IF q.pc = "panicked" THEN q ELSE [q EXCEPT !.pc = "main"]

\* the child of a fork: a copy of the memory of its parent, statics included
Fork(parent) ==
    [parent EXCEPT !.role = NextRole(parent.role), !.own = 0, !.calls = 0]
\* a process started from the executable: it starts at main
Exec(parent) == [NewProcess EXCEPT !.role = NextRole(parent.role)]

\* rust_fuzzer_test_input as generated by the first arm of fuzz_target!
\* (lib.rs:87-107): what it writes to the debug file, whether the body runs
TestInputBytes(cellSet, input) ==
    IF cellSet THEN [wrote |-> "bytes", body |-> FALSE]
    ELSE [wrote |-> "none", body |-> TRUE]

\* rust_fuzzer_test_input as generated by the typed arm (lib.rs:113-156)
TestInputTyped(cellSet, input, min) ==
    IF input.len < min THEN [wrote |-> "none", body |-> FALSE]
    ELSE IF cellSet
    THEN [wrote |-> IF input.decodes THEN "value" ELSE "error", body |-> FALSE]
    ELSE [wrote |-> "none", body |-> input.decodes]

RustFuzzerTestInput(kind, cellSet, input, min) ==
    IF kind = "bytes" THEN TestInputBytes(cellSet, input)
    ELSE TestInputTyped(cellSet, input, min)

NoTargetCall ==
    [proc |-> 0, input |-> [len |-> 0, decodes |-> FALSE], debug |-> FALSE,
     wrote |-> "none", body |-> FALSE]
(***************************************************************************)
(* The build options of the cargo subcommand (cargo-libafl/src/options.rs):*)
(* the BuildOptions struct, its Display and the parser clap derives for it.*)
(***************************************************************************)
\* the values of strings: one without a space, one with a space
Texts == {"x", "y z"}
\* str::split(' ') on a value
Words(text) == IF text = "y z" THEN <<"y", "z">> ELSE <<text>>
\* Option::None of an Option<String>
NoneText == "<None>"
\* crate::utils::default_target() (utils.rs:2-4)
DefaultTarget == "x86_64-unknown-linux-gnu"
\* enum Sanitizer (options.rs:17-24)
Sanitizers == {"Address", "Leak", "Memory", "Thread", "None"}
\* impl Display for Sanitizer (options.rs:26-40)
SanitizerDisplay(san) ==
    CASE san = "Address" -> "address"
      [] san = "Leak" -> "leak"
      [] san = "Memory" -> "memory"
      [] san = "Thread" -> "thread"
      [] san = "None" -> ""
\* impl FromStr for Sanitizer (options.rs:42-55), "Err" for the error
SanitizerFromStr(str) ==
    CASE str = "address" -> "Address"
      [] str = "leak" -> "Leak"
      [] str = "memory" -> "Memory"
      [] str = "thread" -> "Thread"
      [] str = "none" -> "None"
      [] OTHER -> "Err"

\* the fields of type bool of struct BuildOptions (options.rs:57-156)
BoolFields ==
    {"dev", "release", "debug_assertions", "verbose", "no_default_features",
     "all_features", "build_std", "careful_mode", "coverage", "strip_dead_code",
     "no_cfg_fuzzing", "no_trace_compares"}

\* the value clap builds from no argument, which is the default_opts of the
\* test (options.rs:237-255)
DefaultOptions ==
    [dev |-> FALSE, release |-> FALSE, debug_assertions |-> FALSE,
     verbose |-> FALSE, no_default_features |-> FALSE, all_features |-> FALSE,
     features |-> NoneText, sanitizer |-> "Address", build_std |-> FALSE,
     careful_mode |-> FALSE, triple |-> DefaultTarget, unstable_flags |-> <<>>,
     target_dir |-> NoneText, coverage |-> FALSE, strip_dead_code |-> FALSE,
     no_cfg_fuzzing |-> FALSE, no_trace_compares |-> FALSE]

\* the values that differ from o in one field
Changed(o) ==
    {[o EXCEPT ![f] = TRUE] : f \in BoolFields}
    \cup {[o EXCEPT !.features = t] : t \in Texts}
    \cup {[o EXCEPT !.target_dir = t] : t \in Texts}
    \cup {[o EXCEPT !.triple = "x"]}
    \cup {[o EXCEPT !.sanitizer = san] : san \in Sanitizers}
    \cup {[o EXCEPT !.unstable_flags = z] : z \in {<<"x">>, <<"x", "x">>}}

RECURSIVE OptionValues(_)
\* the BuildOptions values that differ from the default in at most n fields
OptionValues(n) ==
    IF n = 0 THEN {DefaultOptions}
    ELSE LET less == OptionValues(n - 1)
         IN less \cup UNION {Changed(o) : o \in less}

\* a piece of the Display output, written by one write!: " name" or
\* " name=val" (" -Zval" for the unstable flags)
Piece(name) == [name |-> name, hasVal |-> FALSE, val |-> ""]
PieceVal(name, val) == [name |-> name, hasVal |-> TRUE, val |-> val]

RECURSIVE FlagPieces(_)
\* the loop over unstable_flags (options.rs:198-200)
FlagPieces(flags) ==
    IF flags = <<>> THEN <<>>
    ELSE <<PieceVal("-Z", Head(flags))>> \o FlagPieces(Tail(flags))

\* impl Display for BuildOptions (options.rs:158-212)
DisplayBuildOptions(o) ==
    (IF o.dev THEN <<Piece("-D")>> ELSE <<>>)
    \o (IF o.release THEN <<Piece("-O")>> ELSE <<>>)
    \o (IF o.debug_assertions THEN <<Piece("-a")>> ELSE <<>>)
    \o (IF o.verbose THEN <<Piece("-v")>> ELSE <<>>)
    \o (IF o.no_default_features THEN <<Piece("--no-default-features")>> ELSE <<>>)
    \o (IF o.all_features THEN <<Piece("--all-features")>> ELSE <<>>)
    \o (IF o.features # NoneText THEN <<PieceVal("--features", o.features)>> ELSE <<>>)
    \o (IF o.sanitizer = "None" THEN <<PieceVal("--sanitizer", "none")>>
        ELSE IF o.sanitizer = "Address" THEN <<>>
        ELSE <<PieceVal("--sanitizer", SanitizerDisplay(o.sanitizer))>>)
    \o (IF o.triple # DefaultTarget THEN <<PieceVal("--target", o.triple)>> ELSE <<>>)
    \o FlagPieces(o.unstable_flags)
    \o (IF o.target_dir # NoneText THEN <<PieceVal("--target-dir", o.target_dir)>> ELSE <<>>)
    \o (IF o.coverage THEN <<Piece("--coverage")>> ELSE <<>>)

RECURSIVE BareWords(_)
BareWords(words) ==
    IF words = <<>> THEN <<>>
    ELSE <<PieceVal("", Head(words))>> \o BareWords(Tail(words))

RECURSIVE SplitAtSpaces(_)
\* case.to_string().split(' ') (options.rs:313), without the empty first
\* item that clap takes for the name of the program: a value that holds a
\* space is cut, and what follows the space is an argument of its own
SplitAtSpaces(pieces) ==
    IF pieces = <<>> THEN <<>>
    ELSE LET p == Head(pieces)
             w == Words(p.val)
         IN (IF p.hasVal
             THEN <<PieceVal(p.name, Head(w))>> \o BareWords(Tail(w))
             ELSE <<p>>)
            \o SplitAtSpaces(Tail(pieces))

\* the flags clap knows for the fields of type bool: the short and long
\* names of the #[clap] attributes; coverage is #[clap(skip)] and has none
FlagField(name) ==
    CASE name \in {"-D", "--dev"} -> "dev"
      [] name \in {"-O", "--release"} -> "release"
      [] name \in {"-a", "--debug-assertions"} -> "debug_assertions"
      [] name \in {"-v", "--verbose"} -> "verbose"
      [] name = "--no-default-features" -> "no_default_features"
      [] name = "--all-features" -> "all_features"
      [] name = "--build-std" -> "build_std"
      [] name \in {"-c", "--careful"} -> "careful_mode"
      [] name = "--strip-dead-code" -> "strip_dead_code"
      [] name = "--no-cfg-fuzzing" -> "no_cfg_fuzzing"
      [] name = "--no-trace-compares" -> "no_trace_compares"
      [] OTHER -> "unknown"

\* the result of a parse: a value, or the error clap ends the process with
ParseError == [ok |-> FALSE, value |-> DefaultOptions]
NoParse == ParseError

\* clap on one argument, after the arguments before it
ParseArg(acc, a) ==
    IF ~acc.ok THEN acc
    ELSE IF ~a.hasVal
    THEN IF FlagField(a.name) = "unknown" THEN ParseError
         ELSE [acc EXCEPT !.value[FlagField(a.name)] = TRUE]
    ELSE CASE a.name = "--features" -> [acc EXCEPT !.value.features = a.val]
           [] a.name \in {"-s", "--sanitizer"} ->
                IF SanitizerFromStr(a.val) = "Err" THEN ParseError
                ELSE [acc EXCEPT !.value.sanitizer = SanitizerFromStr(a.val)]
           [] a.name = "--target" -> [acc EXCEPT !.value.triple = a.val]
           [] a.name = "-Z" ->
                [acc EXCEPT !.value.unstable_flags = Append(@, a.val)]
           [] a.name = "--target-dir" -> [acc EXCEPT !.value.target_dir = a.val]
           [] OTHER -> ParseError

RECURSIVE ParseArgs(_, _)
ParseArgs(acc, args) ==
    IF args = <<>> THEN acc ELSE ParseArgs(ParseArg(acc, Head(args)), Tail(args))

\* the conflicts_with of the attributes (options.rs:60, 64, 80-84)
Conflicts(o) ==
    \/ o.dev /\ o.release
    \/ o.all_features /\ o.no_default_features
    \/ o.all_features /\ o.features # NoneText

\* the parser clap derives for BuildOptions, on the arguments given
ParseBuildOptions(args) ==
    LET r == ParseArgs([ok |-> TRUE, value |-> DefaultOptions], args)
    IN IF r.ok /\ Conflicts(r.value) THEN ParseError ELSE r

(***************************************************************************)
(* The token dictionary (runtime.rs:279-293).  A Tokens value is the       *)
(* sequence of its tokens, each once, in the order they were added; the    *)
(* metadata of a state is a record                                         *)
(*   has   the state carries a Tokens metadata                             *)
(*   toks  its tokens                                                      *)
(* and a token file is a record                                            *)
(*   ok    the file can be read and parsed                                 *)
(*   toks  the tokens it lists                                             *)
(***************************************************************************)
TokenLists == {<<>>, <<"a">>, <<"b", "a">>}

TokenFiles == [ok : {TRUE}, toks : TokenLists] \cup {[ok |-> FALSE, toks |-> <<>>]}

\* the possible values of --tokens: no file, one file or two
TokenFileLists == {<<>>} \cup [{1} -> TokenFiles] \cup [{1, 2} -> TokenFiles]

\* a state without Tokens metadata
NoTokens == [has |-> FALSE, toks |-> <<>>]

\* Tokens::add_token: a token already present is not added again
AddToken(toks, t) ==
    IF \E i \in 1..Len(toks) : toks[i] = t THEN toks ELSE Append(toks, t)

\* Tokens::add_tokens, also behind `toks += ..`
RECURSIVE AddTokens(_, _)
AddTokens(toks, more) ==
    IF more = <<>> THEN toks
    ELSE AddTokens(AddToken(toks, more[1]), Tail(more))

\* the loop of lines 282-284: add_from_file on each file, `?` on its error
RECURSIVE AddFromFiles(_, _)
AddFromFiles(toks, files) ==
    IF files = <<>> THEN [ok |-> TRUE, toks |-> toks]
    ELSE IF ~files[1].ok THEN [ok |-> FALSE, toks |-> toks]
    ELSE AddFromFiles(AddTokens(toks, files[1].toks), Tail(files))

\* state.has_metadata::<Tokens>()
HasMetadataNever(meta) == FALSE
HasMetadata(meta) == meta.has

\* lines 280-293: what run_client does about the tokens, on the metadata the
\* state came with: whether it went on, the metadata after, whether it read
ReadTokens(meta, files, auto) ==
    IF HasMetadata(meta) THEN [ok |-> TRUE, meta |-> meta, read |-> FALSE]
    ELSE LET r == AddFromFiles(<<>>, files)
             toks == AddTokens(r.toks, auto)
         IN IF ~r.ok THEN [ok |-> FALSE, meta |-> meta, read |-> TRUE]
            ELSE [ok |-> TRUE,
                  meta |-> IF toks # <<>> THEN [has |-> TRUE, toks |-> toks]
                           ELSE meta,
                  read |-> TRUE]

\* TokenInsert / TokenReplace: skipped without metadata or without tokens
TokenMutate(meta) ==
    IF ~meta.has \/ meta.toks = <<>> THEN "Skipped" ELSE "Mutated"

\* the variables of the tokens, while their reading is not followed
TokensOff ==
    /\ token_files = <<>>
    /\ autoTokens = <<>>
    /\ tokens = NoTokens
    /\ tokPc = "off"
    /\ reads = 0
    /\ restarts = 0
    /\ lastMutation = "none"

\* the variables of the loop followed stage by stage, while it is not followed
LoopOff ==
    /\ grimoire_enabled = FALSE
    /\ loopPc = "off"
    /\ stage = 0
    /\ ran = <<>>
    /\ gates = {}
    /\ call = NoCall
    /\ made = FALSE
    /\ iters = 0
    /\ targetCalls = 0
    /\ lastExit = "none"

\* the variables of the processes and the entry point, while not followed
TargetOff ==
    /\ debugEnv = FALSE
    /\ targetKind = "bytes"
    /\ forks = TRUE
    /\ minSize = 0
    /\ procs = <<>>
    /\ debugFile = "absent"
    /\ lastCall = NoTargetCall

\* the variables of the build options, while not followed
OptionsOff ==
    /\ buildOptions = DefaultOptions
    /\ rendered = <<>>
    /\ reparsed = NoParse
    /\ optPc = "off"

Init ==
    /\ LoopOff
    /\ TargetOff
    /\ OptionsOff
    /\ TokensOff
    /\ paths \in [{"corpus", "crashes"} -> PathKinds]
    /\ mainPc = "start"
    /\ diagnostic = FALSE
    /\ exitStatus = -1
    /\ shmem = FALSE
    /\ wpc = [w \in Workers |-> "off"]
    /\ wexit = [w \in Workers |-> -1]
    /\ wdiag = [w \in Workers |-> FALSE]
    /\ state = [w \in Workers |-> FreshState]
    /\ inbox = [w \in Workers |-> <<>>]
    /\ disk \in {D \in SUBSET SeedFiles : Cardinality(D) <= MaxSeeds}
    /\ crashStore = [w \in Workers |-> [s \in Sigs |-> 0]]
    /\ objectives = [w \in Workers |-> 0]
    /\ crashes = [w \in Workers |-> [s \in Sigs |-> 0]]
    /\ execs = 0
    /\ ev = NoEv

\* main, lines 184-192: create or accept the two directories
MainCheckDirs ==
    /\ mainPc = "start"
    /\ LET r == CheckDirs(paths, 1)
       IN /\ paths' = r.paths
          /\ IF r.ok
             THEN /\ mainPc' = "dirs_ok"
                  /\ UNCHANGED <<diagnostic, exitStatus>>
             ELSE /\ mainPc' = "returned"
                  /\ diagnostic' = TRUE
                  /\ exitStatus' = 0
    /\ UNCHANGED <<shmem, wpc, wexit, wdiag, state, inbox, disk, crashStore,
                   objectives, crashes, execs, ev, aside>>

\* main, line 200: StdShMemProvider::new().expect(..)
MainShMem ==
    /\ mainPc = "dirs_ok"
    /\ \E ok \in BOOLEAN :
         IF ok
         THEN /\ shmem' = TRUE
              /\ mainPc' = "shmem"
              /\ UNCHANGED <<diagnostic, exitStatus>>
         ELSE /\ mainPc' = "panicked"
              /\ diagnostic' = TRUE
              /\ exitStatus' = 101
              /\ UNCHANGED shmem
    /\ UNCHANGED <<paths, wpc, wexit, wdiag, state, inbox, disk, crashStore,
                   objectives, crashes, execs, ev, aside>>

\* main, lines 425-440: the Launcher forks one client per core and runs the
\* broker in the main process
MainLaunch ==
    /\ mainPc = "shmem"
    /\ mainPc' = "broker"
    /\ wpc' = [w \in Workers |-> "spawned"]
    /\ UNCHANGED aside
    /\ UNCHANGED <<paths, diagnostic, exitStatus, shmem, wexit, wdiag, state,
                   inbox, disk, crashStore, objectives, crashes, execs, ev>>

\* the events the broker forwards: to every client but the sender
Broadcast(box, sender, files) ==
    [w \in Workers |-> IF w = sender THEN box[w] ELSE box[w] \o files]

\* the Launcher has forked the client and its respawner spawns the next
\* process: the first one, or the next one after a process that saved its state
CanStart(w) == wpc[w] \in {"spawned", "crashed"}

\* run_client up to the fuzz loop (lines 215-421), in a fresh process or in
\* one respawned after a crash with the saved state
RunClient(w) ==
    /\ CanStart(w)
    /\ \E listing \in Orders(disk) :
       LET loaded == EvaluateAll(state[w], listing, <<>>)
           count == Len(loaded.st.corpus)
       IN \E gen \in IF NeedsGeneration(count) THEN Generated ELSE {<<>>} :
            LET r == EvaluateAll(loaded.st, gen, loaded.admitted)
            IN /\ state' = [state EXCEPT ![w] = r.st]
               /\ ev' = [StepEv("client", w) EXCEPT !.loaded = count,
                                                    !.generated = gen # <<>>,
                                                    !.fresh = wpc[w] = "spawned",
                                                    !.dir = disk]
               /\ disk' = disk \cup Range(r.admitted)
               /\ inbox' = Broadcast(inbox, w, r.admitted)
               /\ IF CorpusEmpty(Len(r.st.corpus))
                  THEN /\ wpc' = [wpc EXCEPT ![w] = "shutdown"]
                       /\ wdiag' = [wdiag EXCEPT ![w] = TRUE]
                       /\ wexit' = [wexit EXCEPT ![w] = 0]
                  ELSE /\ wpc' = [wpc EXCEPT ![w] = "sched"]
                       /\ wexit' = [wexit EXCEPT ![w] = -1]
                       /\ UNCHANGED wdiag
    /\ UNCHANGED <<mainVars, aside>>
    /\ UNCHANGED <<crashStore, objectives, crashes, execs>>

\* fuzz_one, the scheduler's next(): cull marks the favored test cases
SchedulerNext(w) ==
    /\ wpc[w] = "sched"
    /\ \E keys \in KeyOrders(state[w].top) :
         state' = [state EXCEPT ![w].corpus = Cull(@, state[w].top, keys)]
    /\ wpc' = [wpc EXCEPT ![w] = "stages"]
    /\ ev' = StepEv("next", w)
    /\ UNCHANGED <<mainVars, aside>>
    /\ UNCHANGED <<wexit, wdiag, inbox, disk, crashStore, objectives, crashes,
                   execs>>

\* one execution of the target by a mutational stage that returns: the
\* executor runs the harness and the fuzzer evaluates the execution
ExecuteOk(w) ==
    /\ wpc[w] = "stages"
    /\ execs < MaxExecs
    /\ \E f \in Files :
         LET r == ProcessExecution(state[w], "Ok", f.map, f.time, f.len, NoHash)
             out == IF r.isCorpus THEN <<f>> ELSE <<>>
         IN /\ state' = [state EXCEPT ![w] = r.st]
            /\ ev' = [StepEv("exec", w) EXCEPT
                        !.map = f.map, !.time = f.time,
                        !.hashEvaluated = r.obj.hashEvaluated,
                        !.replay = /\ ev.kind = "exec" /\ ev.w = w
                                   /\ ev.exit = "Ok" /\ ev.map = f.map]
            /\ disk' = disk \cup Range(out)
            /\ inbox' = Broadcast(inbox, w, out)
    /\ execs' = execs + 1
    /\ UNCHANGED <<mainVars, aside>>
    /\ UNCHANGED <<wpc, wexit, wdiag, crashStore, objectives, crashes>>

\* one execution of the target that crashes or exceeds the timeout: the
\* handler evaluates the objective, saves the state and ends the process
ExecuteCrash(w) ==
    /\ wpc[w] = "stages"
    /\ execs < MaxExecs
    /\ \E exit \in {"Crash", "Timeout"} :
       \E sig \in IF exit = "Crash" THEN Sigs ELSE {NoHash} :
         LET r == CrashHandler(state[w], exit, sig)
             hash == ObservedHash(exit, sig)
         IN /\ state' = [state EXCEPT ![w] = r.st]
            /\ ev' = [StepEv("exec", w) EXCEPT
                        !.exit = exit, !.hash = hash,
                        !.hashEvaluated = r.obj.hashEvaluated]
            /\ crashStore' = IF r.isSolution
                             THEN [crashStore EXCEPT ![w][hash] = @ + 1]
                             ELSE crashStore
            /\ objectives' = IF r.isSolution
                             THEN [objectives EXCEPT ![w] = r.st.solutions]
                             ELSE objectives
            /\ crashes' = IF exit = "Crash"
                          THEN [crashes EXCEPT ![w][sig] = @ + 1]
                          ELSE crashes
    /\ wexit' = [wexit EXCEPT ![w] = 1]
    /\ wpc' = [wpc EXCEPT ![w] = "crashed"]
    /\ execs' = execs + 1
    /\ UNCHANGED <<mainVars, aside>>
    /\ UNCHANGED <<wdiag, inbox, disk>>

\* one execution of the target during which the process is killed by a
\* signal no handler can catch (SIGKILL, as from the out-of-memory killer):
\* no objective is evaluated and no state is saved, and the respawner of the
\* restarting manager, finding no saved state, panics instead of spawning
\* the next client
ExecuteKilled(w) ==
    /\ wpc[w] = "stages"
    /\ execs < MaxExecs
    /\ wexit' = [wexit EXCEPT ![w] = 137]
    /\ wpc' = [wpc EXCEPT ![w] = "dead"]
    /\ ev' = StepEv("kill", w)
    /\ execs' = execs + 1
    /\ UNCHANGED <<mainVars, aside>>
    /\ UNCHANGED <<wdiag, state, inbox, disk, crashStore, objectives, crashes>>

\* the end of fuzz_one: mgr.process handles the NewTestcase events received
ProcessEvents(w) ==
    /\ wpc[w] = "stages"
    /\ LET r == EvaluateAll(state[w], inbox[w], <<>>)
       IN /\ state' = [state EXCEPT ![w] = r.st]
          /\ disk' = disk \cup Range(r.admitted)
    /\ ev' = IF inbox[w] = <<>> THEN NoEv
             ELSE [StepEv("recv", w) EXCEPT !.map = inbox[w][Len(inbox[w])].map,
                                            !.msgs = inbox[w]]
    /\ inbox' = [inbox EXCEPT ![w] = <<>>]
    /\ wpc' = [wpc EXCEPT ![w] = "sched"]
    /\ UNCHANGED <<mainVars, aside>>
    /\ UNCHANGED <<wexit, wdiag, crashStore, objectives, crashes, execs>>

Next ==
    \/ MainCheckDirs
    \/ MainShMem
    \/ MainLaunch
    \/ \E w \in Workers : RunClient(w)
    \/ \E w \in Workers : SchedulerNext(w)
    \/ \E w \in Workers : ExecuteOk(w)
    \/ \E w \in Workers : ExecuteCrash(w)
    \/ \E w \in Workers : ExecuteKilled(w)
    \/ \E w \in Workers : ProcessEvents(w)

Spec == Init /\ [][Next]_vars

(***************************************************************************)
(* One client process inside fuzz_loop (runtime.rs:421), followed stage by *)
(* stage: fuzz_one asks the scheduler for a test case, performs the stages *)
(* of the tuple in order and handles the events received.                  *)
(***************************************************************************)
\* the variables of the session, while the session is not followed
SessionOff ==
    /\ paths = [d \in {"corpus", "crashes"} |-> "dir"]
    /\ mainPc = "broker"
    /\ diagnostic = FALSE
    /\ exitStatus = -1
    /\ shmem = TRUE
    /\ wpc = [w \in Workers |-> "off"]
    /\ wexit = [w \in Workers |-> -1]
    /\ wdiag = [w \in Workers |-> FALSE]
    /\ state = [w \in Workers |-> FreshState]
    /\ inbox = [w \in Workers |-> <<>>]
    /\ disk = {}
    /\ crashStore = [w \in Workers |-> [s \in Sigs |-> 0]]
    /\ objectives = [w \in Workers |-> 0]
    /\ crashes = [w \in Workers |-> [s \in Sigs |-> 0]]
    /\ execs = 0
    /\ ev = NoEv

sessionVars == <<paths, mainPc, diagnostic, exitStatus, shmem, wpc, wexit, wdiag,
                 state, inbox, disk, crashStore, objectives, crashes, execs, ev>>

LoopInit ==
    /\ SessionOff
    /\ TargetOff
    /\ OptionsOff
    /\ TokensOff
    /\ grimoire_enabled \in BOOLEAN
    /\ loopPc = "next"
    /\ stage = 0
    /\ ran = <<>>
    /\ gates = {}
    /\ call = NoCall
    /\ made = FALSE
    /\ iters = 0
    /\ targetCalls = 0
    /\ lastExit = "none"

loopFrame == <<sessionVars, targetVars, optionVars, tokenVars, grimoire_enabled>>

\* fuzz_one: scheduler.next() yields the test case of this iteration
LoopSchedule ==
    /\ loopPc = "next"
    /\ iters < MaxIters
    /\ loopPc' = "stage"
    /\ stage' = 1
    /\ ran' = <<>>
    /\ UNCHANGED <<gates, call, made, iters, targetCalls, lastExit, loopFrame>>

\* perform_all reaches the next stage of the tuple: an IfElseStage calls its
\* closure, and the stage is performed or passed over
StageBegin ==
    /\ loopPc = "stage"
    /\ stage \in 1..Len(Stages)
    /\ LET name == Stages[stage]
           open == Gate(name, grimoire_enabled)
       IN /\ gates' = IF name \in Gated
                      THEN gates \cup {[stage |-> name, open |-> open]}
                      ELSE gates
          /\ IF open
             THEN /\ ran' = Append(ran, name)
                  /\ loopPc' = "calls"
                  /\ made' = FALSE
                  /\ UNCHANGED stage
             ELSE /\ stage' = stage + 1
                  /\ UNCHANGED <<ran, loopPc, made>>
    /\ UNCHANGED <<call, iters, targetCalls, lastExit, loopFrame>>

\* the stage runs the target through its executor: run_target of the
\* TimeoutExecutor arms the timer, run_target of a bare InProcessExecutor
\* does not; the tracing stage runs the target once
CallStart ==
    /\ loopPc = "calls"
    /\ targetCalls < MaxCalls
    /\ Stages[stage] = "tracing" => ~made
    /\ \E fate \in Fates :
         call' = [stage |-> Stages[stage],
                  executor |-> StageExecutor(Stages[stage]),
                  timer |-> HasTimeout(StageExecutor(Stages[stage])),
                  fate |-> fate]
    /\ loopPc' = "call"
    /\ made' = TRUE
    /\ targetCalls' = targetCalls + 1
    /\ UNCHANGED <<stage, ran, gates, iters, lastExit, loopFrame>>

\* the harness returns ExitKind::Ok (line 346) and the timer is disarmed
CallReturn ==
    /\ loopPc = "call"
    /\ call.fate = "returns"
    /\ lastExit' = "Ok"
    /\ call' = NoCall
    /\ loopPc' = "calls"
    /\ UNCHANGED <<stage, ran, gates, made, iters, targetCalls, loopFrame>>

\* the target crashes: the crash handler of the in-process executor
\* reports ExitKind::Crash, saves the state and ends the process
CallCrash ==
    /\ loopPc = "call"
    /\ call.fate = "crashes"
    /\ lastExit' = "Crash"
    /\ call' = NoCall
    /\ loopPc' = "exited"
    /\ UNCHANGED <<stage, ran, gates, made, iters, targetCalls, loopFrame>>

\* the timer armed by the TimeoutExecutor expires on a call that has not
\* returned: the timeout handler reports ExitKind::Timeout, saves the
\* state and ends the process
TimeoutFires ==
    /\ loopPc = "call"
    /\ call.fate = "hangs"
    /\ call.timer
    /\ lastExit' = "Timeout"
    /\ call' = NoCall
    /\ loopPc' = "exited"
    /\ UNCHANGED <<stage, ran, gates, made, iters, targetCalls, loopFrame>>

\* the stage returns and perform_all moves on to the rest of the tuple
StageEnd ==
    /\ loopPc = "calls"
    /\ Stages[stage] = "tracing" => made
    /\ stage' = stage + 1
    /\ loopPc' = "stage"
    /\ UNCHANGED <<ran, gates, call, made, iters, targetCalls, lastExit, loopFrame>>

\* the end of fuzz_one, after the last stage: mgr.process
LoopEvents ==
    /\ loopPc = "stage"
    /\ stage = Len(Stages) + 1
    /\ iters' = iters + 1
    /\ loopPc' = "next"
    /\ UNCHANGED <<stage, ran, gates, call, made, targetCalls, lastExit, loopFrame>>

\* the respawner spawns the next process, which enters the loop again
LoopRespawn ==
    /\ loopPc = "exited"
    /\ loopPc' = "next"
    /\ stage' = 0
    /\ ran' = <<>>
    /\ made' = FALSE
    /\ UNCHANGED <<gates, call, iters, targetCalls, lastExit, loopFrame>>

LoopNext ==
    \/ LoopSchedule
    \/ StageBegin
    \/ CallStart
    \/ CallReturn
    \/ CallCrash
    \/ TimeoutFires
    \/ StageEnd
    \/ LoopEvents
    \/ LoopRespawn

SpecLoop == LoopInit /\ [][LoopNext]_vars

(***************************************************************************)
(* The processes of a session and their calls of the target's entry        *)
(* points.                                                                 *)
(***************************************************************************)
TargetInit ==
    /\ SessionOff
    /\ LoopOff
    /\ OptionsOff
    /\ TokensOff
    /\ debugEnv \in BOOLEAN
    /\ targetKind \in TargetKinds
    /\ forks \in BOOLEAN
    /\ minSize \in SizeHints
    /\ procs = <<NewProcess>>
    /\ debugFile = "absent"
    /\ lastCall = NoTargetCall

targetFrame == <<sessionVars, loopVars, optionVars, tokenVars, debugEnv,
                 targetKind, forks, minSize>>

\* a process that starts at main calls the hook (runtime.rs:160-163)
MainEntry(p) ==
    /\ procs[p].pc = "entry"
    /\ procs' = [procs EXCEPT ![p] = MainHook(@, debugEnv)]
    /\ UNCHANGED <<debugFile, lastCall, targetFrame>>

\* the Launcher in the broker starts the process of a core, the respawner
\* starts the next client: by fork, or from the executable
Spawn(p) ==
    /\ procs[p].pc = "main"
    /\ procs[p].role \in {"broker", "respawner"}
    /\ Len(procs) < MaxProcs
    /\ procs' = Append(procs, IF forks THEN Fork(procs[p]) ELSE Exec(procs[p]))
    /\ UNCHANGED <<debugFile, lastCall, targetFrame>>

\* the harness of a client calls rust_fuzzer_test_input (runtime.rs:340-347)
TestInput(p) ==
    /\ procs[p].pc = "main"
    /\ procs[p].role = "client"
    /\ procs[p].calls < MaxCalls
    /\ \E input \in Inputs :
         LET r == RustFuzzerTestInput(targetKind, procs[p].cell, input, minSize)
         IN /\ debugFile' = IF r.wrote = "none" THEN debugFile ELSE r.wrote
            /\ lastCall' = [proc |-> p, input |-> input, debug |-> procs[p].cell,
                            wrote |-> r.wrote, body |-> r.body]
    /\ procs' = [procs EXCEPT ![p].calls = @ + 1]
    /\ UNCHANGED targetFrame

TargetNext ==
    \/ \E p \in 1..Len(procs) : MainEntry(p)
    \/ \E p \in 1..Len(procs) : Spawn(p)
    \/ \E p \in 1..Len(procs) : TestInput(p)

SpecTarget == TargetInit /\ [][TargetNext]_vars

(***************************************************************************)
(* A BuildOptions value rendered with Display and parsed back, as the test *)
(* display_build_options does (options.rs:309-316).                        *)
(***************************************************************************)
OptionsInit ==
    /\ SessionOff
    /\ LoopOff
    /\ TargetOff
    /\ TokensOff
    /\ buildOptions \in OptionValues(MaxChanged)
    /\ rendered = <<>>
    /\ reparsed = NoParse
    /\ optPc = "value"

optionsFrame == <<sessionVars, loopVars, targetVars, tokenVars, buildOptions>>

\* case.to_string()
Render ==
    /\ optPc = "value"
    /\ rendered' = DisplayBuildOptions(buildOptions)
    /\ optPc' = "rendered"
    /\ UNCHANGED <<reparsed, optionsFrame>>

\* BuildOptions::from_clap(&BuildOptions::clap().get_matches_from(..split(' ')))
Reparse ==
    /\ optPc = "rendered"
    /\ reparsed' = ParseBuildOptions(SplitAtSpaces(rendered))
    /\ optPc' = "parsed"
    /\ UNCHANGED <<rendered, optionsFrame>>

OptionsNext ==
    \/ Render
    \/ Reparse

SpecOptions == OptionsInit /\ [][OptionsNext]_vars

(***************************************************************************)
(* One client through the reading of the tokens at the start of run_client *)
(* (runtime.rs:279-293), the token mutations of its loop and its restarts  *)
(* from the saved state, while the operator may edit the token files.      *)
(***************************************************************************)
TokensInit ==
    /\ SessionOff
    /\ LoopOff
    /\ TargetOff
    /\ OptionsOff
    /\ token_files \in TokenFileLists
    /\ autoTokens \in {<<>>, <<"a">>}
    /\ tokens = NoTokens
    /\ tokPc = "spawned"
    /\ reads = 0
    /\ restarts = 0
    /\ lastMutation = "none"

tokensFrame == <<sessionVars, loopVars, targetVars, optionVars, autoTokens>>

\* run_client from its start to the fuzz loop, in the first process of the
\* client or in one respawned with the saved state
RunClientTokens ==
    /\ tokPc = "spawned"
    /\ LET r == ReadTokens(tokens, token_files, autoTokens)
       IN /\ tokens' = r.meta
          /\ reads' = IF r.read THEN reads + 1 ELSE reads
          /\ tokPc' = IF r.ok THEN "loop" ELSE "failed"
    /\ UNCHANGED <<token_files, restarts, lastMutation, tokensFrame>>

\* the power stage's mutator applies a token mutation (line 302)
TokenMutation ==
    /\ tokPc = "loop"
    /\ lastMutation' = TokenMutate(tokens)
    /\ UNCHANGED <<token_files, tokens, tokPc, reads, restarts, tokensFrame>>

\* an execution crashes or exceeds the timeout: the handler saves the state,
\* metadata included, and the process exits
ClientExits ==
    /\ tokPc = "loop"
    /\ restarts < MaxRestarts
    /\ tokPc' = "crashed"
    /\ UNCHANGED <<token_files, tokens, reads, restarts, lastMutation, tokensFrame>>

\* the respawner starts the next process with the saved state
ClientRespawn ==
    /\ tokPc = "crashed"
    /\ tokPc' = "spawned"
    /\ restarts' = restarts + 1
    /\ UNCHANGED <<token_files, tokens, reads, lastMutation, tokensFrame>>

\* the operator rewrites, removes or restores one of the token files
EditTokenFile ==
    /\ tokPc \in {"loop", "crashed"}
    /\ \E i \in 1..Len(token_files) : \E f \in TokenFiles :
         /\ f # token_files[i]
         /\ token_files' = [token_files EXCEPT ![i] = f]
    /\ UNCHANGED <<tokens, tokPc, reads, restarts, lastMutation, tokensFrame>>

TokensNext ==
    \/ RunClientTokens
    \/ TokenMutation
    \/ ClientExits
    \/ ClientRespawn
    \/ EditTokenFile

SpecTokens == TokensInit /\ [][TokensNext]_vars
(***************************************************************************)
(* Properties.                                                             *)
(***************************************************************************)
RECURSIVE SumOver(_, _)
SumOver(f, S) ==
    IF S = {} THEN 0
    ELSE LET x == CHOOSE y \in S : TRUE IN f[x] + SumOver(f, S \ {x})

InLoop(w) == wpc[w] \in {"sched", "stages"}
\* the entries of the crashes directory that carry hash s
CrashFiles(s) == SumOver([w \in Workers |-> crashStore[w][s]], Workers)
\* the crashing executions, of all clients, that produced hash s
CrashingExecs(s) == SumOver([w \in Workers |-> crashes[w][s]], Workers)
AllCrashingExecs == SumOver([s \in Sigs |-> CrashingExecs(s)], Sigs)
\* the crash counter of the monitor: the objectives of all clients
CrashCounter == SumOver(objectives, Workers)
\* the edges covered by the test cases of a client's corpus, and by the favored ones
CorpusCoverage(w) ==
    UNION {Indexes(state[w].corpus[i].map) : i \in 1..Len(state[w].corpus)}
FavoredCoverage(w) ==
    UNION {Indexes(state[w].corpus[i].map) :
             i \in {j \in 1..Len(state[w].corpus) : state[w].corpus[j].favored}}

\* C1: a client is in the fuzz loop only with a corpus that is not empty; the
\* generator is called exactly when loading left the corpus empty; and a
\* client whose corpus is still empty after both returns the error instead
\* of entering the loop.
C1_NoFuzzLoopOnEmptyCorpus ==
    /\ \A w \in Workers : InLoop(w) => Len(state[w].corpus) >= 1
    /\ ev.kind = "client" =>
         /\ ev.generated <=> ev.loaded = 0
         /\ Len(state[ev.w].corpus) = 0 =>
              wpc[ev.w] = "shutdown" /\ wdiag[ev.w]
         /\ Len(state[ev.w].corpus) >= 1 => wpc[ev.w] = "sched"

\* C1 witness: loading and generating both admitted nothing and the client
\* returned the error.
C1_Witness ==
    /\ ev.kind = "client" /\ ev.generated /\ ev.loaded = 0
    /\ Len(state[ev.w].corpus) = 0
    /\ wpc[ev.w] = "shutdown"

\* C2: every fatal start-up error (a corpus or crash path that is no valid
\* directory, no initial input after loading and generating) logs a
\* diagnostic and makes the process exit with a status that is not zero.
C2_FatalErrorExitsNonZero ==
    /\ mainPc = "returned" => diagnostic /\ exitStatus # 0
    /\ \A w \in Workers : wpc[w] = "shutdown" => wdiag[w] /\ wexit[w] # 0

\* C3 as stated: when the corpus or the crash directory is missing or is no
\* valid directory as main starts, the start-up check aborts with a diagnostic.
C3_MissingOrInvalidAborts ==
    [][(mainPc = "start" /\ \E d \in Range(DirNames) : paths[d] # "dir")
         => (mainPc' = "returned" /\ diagnostic' /\ ~shmem')]_vars

\* C3 as amended: when the corpus or the crash path exists without being a
\* directory, or is missing and cannot be created, main logs the error and
\* returns: no shared memory, no broker, no client; main goes on past the
\* check only with both paths being directories (a missing one is created).
C3_InvalidPathAborts ==
    /\ (\E d \in Range(DirNames) : paths[d] \in {"file", "noparent"}) =>
         /\ mainPc \in {"start", "returned"}
         /\ mainPc = "returned" => diagnostic
         /\ ~shmem
         /\ \A w \in Workers : wpc[w] = "off"
    /\ mainPc \notin {"start", "returned"} =>
         \A d \in Range(DirNames) : paths[d] = "dir"

\* C3 witness: main returned on a crash path that is a file.
C3_Witness ==
    /\ mainPc = "returned" /\ diagnostic
    /\ paths["corpus"] = "dir" /\ paths["crashes"] = "file"

C5_ObjectiveCrashAndNewHash ==
    ev.kind = "exec" =>
        LET st == state[ev.w]
            admitted == st.solutions = ev.solutionsBefore + 1
        IN /\ st.solutions \in {ev.solutionsBefore, ev.solutionsBefore + 1}
           /\ admitted <=> (ev.exit = "Crash" /\ ev.hash \notin ev.knownBefore)
           /\ ev.exit # "Crash" => ~ev.hashEvaluated /\ st.known = ev.knownBefore
           /\ ev.exit = "Crash" => ev.hash \in st.known

\* C5 witness: a crash with a hash already known was not admitted.
C5_Witness ==
    /\ ev.kind = "exec" /\ ev.exit = "Crash"
    /\ ev.hash \in ev.knownBefore
    /\ state[ev.w].solutions = ev.solutionsBefore

\* C6: no two entries of the crash store carry the same backtrace hash.
C6_NoTwoEntriesShareSignature ==
    \A s \in Sigs : CrashFiles(s) <= 1

\* C7: once two executions have crashed with the same backtrace hash, the
\* crash counter has counted every crashing execution and the crash store
\* holds exactly one file for that hash.
C7_DuplicateCountedOneFile ==
    \A s \in Sigs :
        CrashingExecs(s) >= 2 =>
            CrashCounter = AllCrashingExecs /\ CrashFiles(s) = 1

\* C8: an execution that repeats the map of the client's execution just
\* before it adds nothing to the corpus and leaves the history map as it was.
C8_ReplayAdmitsNothing ==
    (ev.kind = "exec" /\ ev.exit = "Ok" /\ ev.replay) =>
        /\ Len(state[ev.w].corpus) = ev.corpusBefore
        /\ state[ev.w].global = ev.globalBefore

\* C8 witness: the replay of an input that the first evaluation admitted.
C8_Witness ==
    /\ ev.kind = "exec" /\ ev.exit = "Ok" /\ ev.replay
    /\ ev.corpusBefore >= 2
    /\ state[ev.w].corpus[ev.corpusBefore].map = ev.map

\* C9: no step (execution, admission, receipt of a peer's test case, restart)
\* lowers an entry of a client's history map.
C9_GlobalMapMonotone ==
    [][\A w \in Workers : \A i \in Edges :
         state'[w].global[i] >= state[w].global[i]]_vars

\* C9 witness: the receipt of a peer's test case raised the history map.
C9_Witness ==
    /\ ev.kind = "recv"
    /\ state[ev.w].global # ev.globalBefore
    /\ ev.globalBefore # ZeroMap

\* C10 as stated: after every admission to the corpus the favored test cases
\* cover the edges that the whole corpus covers.
C10_FavoredCoversAfterAdmission ==
    (ev.kind \in {"client", "exec", "recv"}
       /\ Len(state[ev.w].corpus) > ev.corpusBefore)
    => FavoredCoverage(ev.w) = CorpusCoverage(ev.w)

\* C10 as amended: after the scheduler's next(), which culls, the favored
\* test cases are test cases of the corpus and cover the edges that the
\* whole corpus covers.
C10_FavoredCoversAfterCull ==
    ev.kind = "next" => FavoredCoverage(ev.w) = CorpusCoverage(ev.w)

\* C10 witness: after a cull, a corpus of two test cases of which one is
\* favored and the other is not.
C10_Witness ==
    /\ ev.kind = "next"
    /\ Len(state[ev.w].corpus) >= 2
    /\ \E i, j \in 1..Len(state[ev.w].corpus) :
         state[ev.w].corpus[i].favored /\ ~state[ev.w].corpus[j].favored

\* the inputs of the test cases in the corpus of client w
CorpusFiles(w) == Range(CaseFiles(state[w].corpus))
\* the test cases that the clients other than w have persisted
PersistedByOthers(w) == UNION {CorpusFiles(v) : v \in Workers \ {w}}

\* C12 as stated: a crash of the target during an execution becomes a Crash
\* outcome that the objective evaluates, and the process that ran the
\* crashing input goes on running.
C12_CrashDoesNotEndProcess ==
    (ev.kind = "exec" /\ ev.exit = "Crash") =>
        /\ ev.hashEvaluated
        /\ InLoop(ev.w)
        /\ wexit[ev.w] = -1

\* C12 as amended: a crash of the target during an execution of the main
\* executor is caught by the crash handler and becomes a Crash outcome that
\* the objective evaluates (a solution exactly when its hash is new); the
\* handler saves the state, corpus and history map as they were, and ends
\* the process that ran the input, and a replacement can start from the
\* saved state.
C12_CrashEvaluatedThenRespawned ==
    (ev.kind = "exec" /\ ev.exit = "Crash") =>
        /\ ev.hashEvaluated
        /\ state[ev.w].solutions =
              ev.solutionsBefore + (IF ev.hash \in ev.knownBefore THEN 0 ELSE 1)
        /\ CaseFiles(state[ev.w].corpus) = ev.casesBefore
        /\ state[ev.w].global = ev.globalBefore
        /\ wpc[ev.w] = "crashed"
        /\ wexit[ev.w] > 0
        /\ CanStart(ev.w)

\* C12 witness: a crash with a new hash was admitted to the solutions and
\* ended the process of a client that holds a corpus.
C12_Witness ==
    /\ ev.kind = "exec" /\ ev.exit = "Crash"
    /\ state[ev.w].solutions = ev.solutionsBefore + 1
    /\ wpc[ev.w] = "crashed"
    /\ Len(ev.casesBefore) >= 1

\* C13: a client whose process exited abnormally gets a replacement (its
\* respawner can start one in every such state), and the corpus of the
\* replacement holds every test case the corpus held before the exit.
C13_AbnormalExitRestartsWithCorpus ==
    /\ \A w \in Workers :
         wpc[w] \in {"crashed", "dead"} => CanStart(w)
    /\ (ev.kind = "client" /\ ~ev.fresh) =>
         Range(ev.casesBefore) \subseteq CorpusFiles(ev.w)

\* C14: a client that starts without a saved state against directories that
\* hold M files, each of them a persisted test case, ends the initial load
\* with M test cases in its corpus.
C14_FreshLoadsExactlyM ==
    (ev.kind = "client" /\ ev.fresh /\ ev.dir \subseteq PersistedByOthers(ev.w))
    => ev.loaded = Cardinality(ev.dir)

\* C18: the handling of NewTestcase events of peers adds to the corpus only
\* inputs with an entry above the history map the client had before; when
\* no event handled has one, corpus and history map stay as they were; and
\* whatever the interleaving of receipts and own executions, no corpus
\* holds the same input twice.
C18_PeerReceiptIdempotent ==
    /\ ev.kind = "recv" =>
         LET st == state[ev.w]
             novel(m) == \E i \in Edges : m.map[i] > ev.globalBefore[i]
         IN /\ \A i \in (ev.corpusBefore + 1)..Len(st.corpus) :
                  novel(st.corpus[i])
            /\ (\A k \in 1..Len(ev.msgs) : ~novel(ev.msgs[k])) =>
                  /\ CaseFiles(st.corpus) = ev.casesBefore
                  /\ st.global = ev.globalBefore
    /\ \A w \in Workers :
         \A i, j \in 1..Len(state[w].corpus) :
             i # j => CaseFiles(state[w].corpus)[i] # CaseFiles(state[w].corpus)[j]

\* C18 witness: a client handled the event of an input that its own corpus
\* held already, and its corpus stayed as it was.
C18_Witness ==
    /\ ev.kind = "recv"
    /\ \E k \in 1..Len(ev.msgs) : ev.msgs[k] \in Range(ev.casesBefore)
    /\ CaseFiles(state[ev.w].corpus) = ev.casesBefore

\* perform_all has been through the whole tuple in this iteration
IterationDone == loopPc = "stage" /\ stage = Len(Stages) + 1

\* C11: every call of the target made by a stage of the fuzz loop, the call
\* of the tracing stage included, runs with the timer of the per-execution
\* timeout armed, so that a call that does not return is interrupted and
\* reported as a timeout.
C11_EveryCallBounded ==
    (loopPc = "call" /\ call.fate = "hangs") => call.timer

\* C15: without --grimoire neither the grimoire stage nor the
\* generalization stage is performed in any iteration; with it, an iteration
\* that runs to its end has performed both; and every answer the two gates
\* have given in the session is the same, the value of the option.
C15_GatesFollowOption ==
    /\ \A g \in gates : g.open = grimoire_enabled
    /\ ~grimoire_enabled =>
         /\ Range(ran) \cap Gated = {}
         /\ call.stage \notin Gated
    /\ (grimoire_enabled /\ IterationDone) => Gated \subseteq Range(ran)

\* C15 witness: a second iteration ran to its end without --grimoire, both
\* gates having answered.
C15_Witness ==
    /\ ~grimoire_enabled /\ IterationDone /\ iters >= 1
    /\ {g.stage : g \in gates} = Gated
    /\ Len(ran) >= 1

\* C20: in every iteration the stages performed so far are the first of
\* generalization (with --grimoire), calibration, tracing, input-to-state,
\* power mutation, grimoire (with --grimoire), in that order, one at a time:
\* a call of the target belongs to the last stage begun; an iteration that
\* runs to its end has performed them all; and the input-to-state stage is
\* begun only after the tracing stage has run the target and returned.
C20_StagesInFixedOrder ==
    LET order == IF grimoire_enabled
                 THEN <<"generalization", "calibration", "tracing", "i2s",
                        "power", "grimoire">>
                 ELSE <<"calibration", "tracing", "i2s", "power">>
    IN /\ Len(ran) <= Len(order)
       /\ \A i \in 1..Len(ran) : ran[i] = order[i]
       /\ IterationDone => ran = order
       /\ loopPc \in {"calls", "call"} =>
            Len(ran) >= 1 /\ Stages[stage] = ran[Len(ran)]
       /\ loopPc = "call" => call.stage = ran[Len(ran)]
       /\ (Len(ran) >= 1 /\ ran[Len(ran)] = "tracing" /\ loopPc = "stage") => made
       /\ \A j \in 1..Len(ran) :
            ran[j] = "i2s" => \E i \in 1..(j - 1) : ran[i] = "tracing"

\* C20 witness: an iteration with --grimoire ran to its end through all six
\* stages.
C20_Witness ==
    /\ grimoire_enabled /\ IterationDone
    /\ Len(ran) = Len(Stages)

\* C16 as stated: every process that has executed the target's entry point
\* has itself run the initialization hook exactly once, before.
C16_HookRunsInEveryProcess ==
    \A p \in 1..Len(procs) : procs[p].calls > 0 => procs[p].own = 1

\* C16 as amended: a process runs the hook exactly once, first thing, when
\* it starts at main, and never again; a process made by fork does not run
\* it and holds what the hook did in the process it was forked from; so
\* wherever the target's entry point has been executed, the hook has run
\* exactly once in the memory image of that process, before, and the cell
\* holds the path exactly when the environment named one.
C16_HookOncePerImage ==
    \A p \in 1..Len(procs) :
        /\ procs[p].pc # "panicked"
        /\ procs[p].own <= 1
        /\ procs[p].pc = "entry" => procs[p].calls = 0 /\ procs[p].inits = 0
        /\ procs[p].pc = "main" =>
              /\ procs[p].inits = 1
              /\ procs[p].cell = debugEnv
              /\ procs[p].own = (IF forks /\ p > 1 THEN 0 ELSE 1)
        /\ procs[p].calls > 0 => procs[p].inits = 1

\* C16 witness: a client made by fork has executed the entry point in
\* debug mode without running the hook itself.
C16_Witness ==
    \E p \in 1..Len(procs) :
        /\ forks /\ debugEnv
        /\ procs[p].role = "client" /\ procs[p].calls >= 2
        /\ procs[p].own = 0 /\ procs[p].inits = 1 /\ procs[p].cell

\* C17: in debug mode every call of the entry point writes the formatting
\* of the decoded value or the decode error to the debug file and returns
\* without running the body, whatever the input, inputs shorter than the
\* minimum size of a typed target included.
C17_DebugCallWritesAndReturns ==
    (lastCall.proc # 0 /\ lastCall.debug) =>
        /\ lastCall.wrote \in {"bytes", "value", "error"}
        /\ debugFile = lastCall.wrote
        /\ ~lastCall.body

\* C19: a BuildOptions value rendered with Display and parsed back from the
\* rendered text, split at the spaces, is the value itself.
C19_DisplayParseRoundTrip ==
    optPc = "parsed" => reparsed = [ok |-> TRUE, value |-> buildOptions]

\* the entries a client has written to the crashes directory
StoreSize(w) == SumOver(crashStore[w], Sigs)

\* C22: an execution that exceeds the timeout is never admitted to the crash
\* store and adds no signature to the known crash signatures: after such an
\* execution the client's solutions and hash set are what they were before,
\* the NewHashFeedback was not run, and at all times every client's entries
\* of the crash store are its solutions, each under the hash of a crashing
\* execution of that client
C22_HangNeverAdmitted ==
    /\ \A w \in Workers :
         /\ StoreSize(w) = state[w].solutions
         /\ \A s \in Sigs : crashStore[w][s] <= crashes[w][s]
         /\ state[w].known \subseteq {s \in Sigs : crashes[w][s] > 0}
    /\ (ev.kind = "exec" /\ ev.exit = "Timeout") =>
         /\ state[ev.w].solutions = ev.solutionsBefore
         /\ state[ev.w].known = ev.knownBefore
         /\ ~ev.hashEvaluated
         /\ wpc[ev.w] = "crashed"

\* C22 witness: an execution exceeded the timeout in a client that had
\* admitted a crash before, whose entry is in the crash store
C22_Witness ==
    /\ ev.kind = "exec"
    /\ ev.exit = "Timeout"
    /\ ev.solutionsBefore >= 1
    /\ ev.knownBefore # {}
    /\ StoreSize(ev.w) >= 1

\* C21: the tokens of a client are loaded at most once and then never
\* change: once the state carries a Tokens metadata no step changes it and the
\* client reads neither the token files nor the binary again, whatever the
\* files hold by then; the metadata is never attached empty; and as long as
\* the state carries none, every token mutation was skipped
C21_TokensLoadedOnceThenFixed ==
    /\ [](tokens.has => tokens.toks # <<>>)
    /\ [](~tokens.has => lastMutation # "Mutated")
    /\ [][tokens.has => (tokens' = tokens /\ reads' = reads)]_vars

\* C21 witness: a process respawned with a state that carries the tokens has
\* reached the loop without reading, though the files now hold other tokens
C21_Witness ==
    /\ tokPc = "loop"
    /\ restarts >= 1
    /\ tokens.has
    /\ reads = 1
    /\ lastMutation = "Mutated"
    /\ LET again == ReadTokens(NoTokens, token_files, autoTokens)
       IN again.ok /\ again.meta # tokens
====
